---- MODULE Spec2Model ----
(***************************************************************************)
(* A model of main.py of tuobaar/simple_data_pipeline: fetch_data,         *)
(* process_data, upload_to_sftp and the __main__ orchestrator.             *)
(*                                                                         *)
(* The program is sequential.  pc is the position of the single thread of  *)
(* control.  events is what an observer with a recording logger, a mock    *)
(* transport and a mock time.sleep would see, in order.                    *)
(***************************************************************************)
EXTENDS Integers, Sequences, FiniteSets, TLC

VARIABLES
    pc,          \* position of the program
    caller,      \* "main": the __main__ block runs; "direct": upload_to_sftp is called on its own
    events,      \* observable trace: log records and I/O calls, in order
    raw_data,    \* __main__: result of fetch_data
    txt_buffer,  \* the StringIO handed to upload_to_sftp / returned by process_data
    retries,     \* upload_to_sftp argument
    delay,       \* upload_to_sftp argument
    attempt,     \* upload_to_sftp loop variable
    transport,   \* upload_to_sftp local: 0 is None, otherwise an index into transports
    transports,  \* every paramiko.Transport created so far
    remote,      \* content of the file at remote_file_path
    upload       \* what upload_to_sftp gave back to its caller

vars == <<pc, caller, events, raw_data, txt_buffer, retries, delay, attempt,
          transport, transports, remote, upload>>

----------------------------------------------------------------------------
(* Bounds of the model *)

MaxRecords == 3
MaxRetries == 3
MinRetries == 0 - 1

(* Program constants *)

DefaultRetries == 3
DefaultDelay == 5
PriceThreshold == 50

----------------------------------------------------------------------------
(* Python values *)

None == <<>>
Some(v) == <<v>>

IntVal(n) == [t |-> "int", v |-> n, s |-> ""]
StrVal(str) == [t |-> "str", v |-> 0, s |-> str]
Absent == [t |-> "absent", v |-> 0, s |-> ""]

PriceValues == {IntVal(30), IntVal(50), IntVal(75), StrVal("N/A"), Absent}

\* The prices the API of the pipeline runs answers with.
ApiPriceValues == {IntVal(30), IntVal(75), StrVal("N/A"), Absent}

\* A record of the API: a dict with key "id" and, unless Absent, key "price".
Rec(i, p) == [id |-> i, price |-> p]

\* The JSON arrays of at most n records; record k carries id k.
RecordLists(n, prices) ==
    UNION { { [k \in 1..len |-> Rec(k, f[k])] : f \in [1..len -> prices] } : len \in 0..n }

\* A line of tab-separated text is the sequence of its fields: <<"2", "75">>
\* is the line 2<TAB>75.
HeaderLine == <<"id", "price">>

\* A StringIO: its content (a sequence of lines), its position, and whether it was closed.
StringIO(content, pos, closed) == [content |-> content, pos |-> pos, closed |-> closed]

----------------------------------------------------------------------------
(* The observable trace *)

Log(stage, name, n) == [kind |-> "log", stage |-> stage, name |-> name, n |-> n]
Call(stage, name, n) == [kind |-> "io", stage |-> stage, name |-> name, n |-> n]
IO(name, n) == Call("upload", name, n)

IsLog(e) == e.kind = "log"
LogLines == SelectSeq(events, IsLog)

\* How many records of that kind and name seq holds.
CountEv(seq, kind, name) ==
    Cardinality({ i \in 1..Len(seq) : seq[i].kind = kind /\ seq[i].name = name })

----------------------------------------------------------------------------
(* paramiko.Transport as upload_to_sftp uses it *)

\* A transport whose socket is connected; by is the attempt that created it.
NewTransport(by) == [active |-> TRUE, closeCalls |-> 0, by |-> by]

\* Transport.close() returning normally: the transport is inactive afterwards.
Closed(ts, tid) == [ts EXCEPT ![tid].active = FALSE, ![tid].closeCalls = @ + 1]

\* Transport.close() raising: the call was made, the socket is still there.
CloseRaised(ts, tid) == [ts EXCEPT ![tid].closeCalls = @ + 1]

OpenTransports == { tid \in 1..Len(transports) : transports[tid].active }

----------------------------------------------------------------------------
(* upload_to_sftp, main.py lines 105-171 *)

UploadLocals == <<attempt, transport, transports, remote, upload>>
Frame == <<caller, raw_data, retries, delay>>

\* An exception raised inside the try block: control goes to the except clause.
Raise(name) ==
    /\ pc' = "u_except"
    /\ events' = Append(events, IO(name, attempt))

\* line 120: transport = None, then the for statement is entered.
UEnter ==
    /\ pc = "u_enter"
    /\ pc' = "u_for"
    /\ transport' = 0
    /\ attempt' = 0
    /\ UNCHANGED <<Frame, events, txt_buffer, transports, remote, upload>>

\* line 122: for attempt in range(1, retries + 1).  When the range is
\* exhausted the function body ends and Python returns None.
UFor ==
    /\ pc = "u_for"
    /\ IF attempt + 1 <= retries
       THEN /\ attempt' = attempt + 1
            /\ pc' = "u_seek"
            /\ UNCHANGED upload
       ELSE /\ upload' = "None"
            /\ pc' = "u_return"
            /\ UNCHANGED attempt
    /\ UNCHANGED <<Frame, events, txt_buffer, transport, transports, remote>>

\* line 125: txt_buffer.seek(0); a closed StringIO raises ValueError.
USeek ==
    /\ pc = "u_seek"
    /\ IF txt_buffer[1].closed
       THEN /\ Raise("seek_raised")
            /\ UNCHANGED txt_buffer
       ELSE /\ txt_buffer' = Some([txt_buffer[1] EXCEPT !.pos = 0])
            /\ pc' = "u_transport"
            /\ UNCHANGED events
    /\ UNCHANGED <<Frame, UploadLocals>>

\* line 128: transport = paramiko.Transport((sftp_host, sftp_port)).  The
\* constructor opens the socket; when it raises, the name transport keeps
\* the value it had.
UTransport ==
    /\ pc = "u_transport"
    /\ \E ok \in BOOLEAN :
         IF ok
         THEN /\ transports' = Append(transports, NewTransport(attempt))
              /\ transport' = Len(transports) + 1
              /\ events' = Append(events, IO("Transport", attempt))
              /\ pc' = "u_connect"
         ELSE /\ events' = events \o <<IO("Transport", attempt), IO("Transport_raised", attempt)>>
              /\ pc' = "u_except"
              /\ UNCHANGED <<transport, transports>>
    /\ UNCHANGED <<Frame, txt_buffer, attempt, remote, upload>>

\* line 129: transport.connect(username=..., password=...)
UConnect ==
    /\ pc = "u_connect"
    /\ \E ok \in BOOLEAN :
         IF ok
         THEN /\ pc' = "u_sftp"
              /\ events' = Append(events, IO("connect", attempt))
         ELSE Raise("connect_raised")
    /\ UNCHANGED <<Frame, txt_buffer, UploadLocals>>

\* line 130: sftp = paramiko.SFTPClient.from_transport(transport)
USftp ==
    /\ pc = "u_sftp"
    /\ \E ok \in BOOLEAN :
         IF ok
         THEN /\ pc' = "u_open"
              /\ events' = Append(events, IO("from_transport", attempt))
         ELSE Raise("from_transport_raised")
    /\ UNCHANGED <<Frame, txt_buffer, UploadLocals>>

\* line 133: sftp.open(remote_file_path, 'w') creates or truncates the file.
UOpen ==
    /\ pc = "u_open"
    /\ \E ok \in BOOLEAN :
         IF ok
         THEN /\ pc' = "u_write"
              /\ remote' = Some(<<>>)
              /\ events' = Append(events, IO("open", attempt))
         ELSE /\ Raise("open_raised")
              /\ UNCHANGED remote
    /\ UNCHANGED <<Frame, txt_buffer, attempt, transport, transports, upload>>

\* UWrite writing txt_buffer.readline() instead of txt_buffer.getvalue().
UWrite_FirstLine ==
    /\ pc = "u_write"
    /\ \E ok \in BOOLEAN :
         IF ok
         THEN /\ pc' = "u_list"
              /\ remote' = Some(SubSeq(txt_buffer[1].content, 1, 1))
              /\ events' = events \o <<IO("write", attempt), Log("upload", "uploaded_to", attempt)>>
         ELSE /\ Raise("write_raised")
              /\ UNCHANGED remote
    /\ UNCHANGED <<Frame, txt_buffer, attempt, transport, transports, upload>>

\* lines 134-135: remote_file.write(txt_buffer.getvalue()) and the log line
\* inside the with block; leaving the block closes the remote file.
UWrite ==
    /\ pc = "u_write"
    /\ \E ok \in BOOLEAN :
         IF ok
         THEN /\ pc' = "u_list"
              /\ remote' = Some(txt_buffer[1].content)
              /\ events' = events \o <<IO("write", attempt), Log("upload", "uploaded_to", attempt)>>
         ELSE /\ Raise("write_raised")
              /\ UNCHANGED remote
    /\ UNCHANGED <<Frame, txt_buffer, attempt, transport, transports, upload>>

\* UList with a failed listing ignored instead of failing the attempt.
UList_ListingOptional ==
    /\ pc = "u_list"
    /\ \E ok \in BOOLEAN :
         /\ pc' = "u_close"
         /\ events' = IF ok
                      THEN events \o <<Log("upload", "listing_heading", attempt),
                                       IO("listdir", attempt),
                                       Log("upload", "listing_entry", attempt)>>
                      ELSE events \o <<Log("upload", "listing_heading", attempt),
                                       IO("listdir_raised", attempt)>>
    /\ UNCHANGED <<Frame, txt_buffer, UploadLocals>>

\* lines 138-141: the heading is logged, then sftp.listdir('/upload') and one
\* log line per entry.
UList ==
    /\ pc = "u_list"
    /\ \E ok \in BOOLEAN :
         IF ok
         THEN /\ pc' = "u_close"
              /\ events' = events \o <<Log("upload", "listing_heading", attempt),
                                       IO("listdir", attempt),
                                       Log("upload", "listing_entry", attempt)>>
         ELSE /\ pc' = "u_except"
              /\ events' = events \o <<Log("upload", "listing_heading", attempt),
                                       IO("listdir_raised", attempt)>>
    /\ UNCHANGED <<Frame, txt_buffer, UploadLocals>>

\* lines 144-145: sftp.close() then transport.close()
UClose ==
    /\ pc = "u_close"
    /\ \E step \in {"ok", "sftp_close_raised", "transport_close_raised"} :
         CASE step = "ok" ->
                /\ transports' = Closed(transports, transport)
                /\ events' = events \o <<IO("sftp_close", attempt), IO("close", transport)>>
                /\ pc' = "u_success"
           [] step = "sftp_close_raised" ->
                /\ Raise("sftp_close_raised")
                /\ UNCHANGED transports
           [] step = "transport_close_raised" ->
                /\ transports' = CloseRaised(transports, transport)
                /\ events' = events \o <<IO("sftp_close", attempt), IO("close_raised", transport)>>
                /\ pc' = "u_except"
    /\ UNCHANGED <<Frame, txt_buffer, attempt, transport, remote, upload>>

\* USuccess without the return statement of line 155.
USuccess_NoReturn ==
    /\ pc = "u_success"
    /\ events' = events \o <<Log("upload", "verify_heading", attempt),
                             Log("upload", "verify_visit", attempt),
                             Log("upload", "verify_credentials", attempt),
                             Log("upload", "verify_username", attempt),
                             Log("upload", "verify_password", attempt),
                             Log("upload", "verify_navigate", attempt)>>
    /\ pc' = "u_finally"
    /\ UNCHANGED <<Frame, txt_buffer, attempt, transport, transports, remote, upload>>

\* lines 148-155: the manual verification instructions, then
\* return "upload_successful"; the finally clause runs before the return.
USuccess ==
    /\ pc = "u_success"
    /\ events' = events \o <<Log("upload", "verify_heading", attempt),
                             Log("upload", "verify_visit", attempt),
                             Log("upload", "verify_credentials", attempt),
                             Log("upload", "verify_username", attempt),
                             Log("upload", "verify_password", attempt),
                             Log("upload", "verify_navigate", attempt)>>
    /\ upload' = "upload_successful"
    /\ pc' = "u_finally"
    /\ UNCHANGED <<Frame, txt_buffer, attempt, transport, transports, remote>>

\* line 159: if attempt < retries
AttemptsRemain_OffByOne == attempt <= retries
AttemptsRemain_Inverted == attempt > retries
AttemptsRemain == attempt < retries

\* lines 157-165: the except clause up to the sleep or the return.
UExcept ==
    /\ pc = "u_except"
    /\ IF AttemptsRemain
       THEN /\ events' = events \o <<Log("upload", "attempt_failed", attempt),
                                     Log("upload", "retrying_in", delay)>>
            /\ pc' = "u_sleep"
            /\ UNCHANGED upload
       ELSE /\ events' = events \o <<Log("upload", "attempt_failed", attempt),
                                     Log("upload", "all_attempts_failed", retries),
                                     Log("upload", "failed_after_retries", retries)>>
            /\ upload' = "upload_failed"
            /\ pc' = "u_finally"
    /\ UNCHANGED <<Frame, txt_buffer, attempt, transport, transports, remote>>

\* line 161: time.sleep(delay), still inside the except clause.
USleep ==
    /\ pc = "u_sleep"
    /\ events' = Append(events, IO("sleep", delay))
    /\ pc' = "u_finally"
    /\ UNCHANGED <<Frame, txt_buffer, UploadLocals>>

\* UFinally without the close of line 170.
UFinally_NoClose ==
    /\ pc = "u_finally"
    /\ pc' = IF upload = "unset" THEN "u_for" ELSE "u_return"
    /\ UNCHANGED <<Frame, events, txt_buffer, UploadLocals>>

\* lines 167-171: the finally clause.  Transport.close() on an inactive
\* transport returns at once; on an active one it may raise, and an
\* exception raised in a finally clause leaves the function.
UFinally ==
    /\ pc = "u_finally"
    /\ IF transport # 0
       THEN \E ok \in BOOLEAN :
              /\ ok \/ transports[transport].active
              /\ IF ok
                 THEN /\ transports' = Closed(transports, transport)
                      /\ events' = events \o <<IO("close", transport),
                                               Log("upload", "transport_closed", attempt)>>
                      /\ pc' = IF upload = "unset" THEN "u_for" ELSE "u_return"
                      /\ UNCHANGED upload
                 ELSE /\ transports' = CloseRaised(transports, transport)
                      /\ events' = Append(events, IO("close_raised", transport))
                      /\ upload' = "raised"
                      /\ pc' = "u_return"
       ELSE /\ pc' = IF upload = "unset" THEN "u_for" ELSE "u_return"
            /\ UNCHANGED <<events, transports, upload>>
    /\ UNCHANGED <<Frame, txt_buffer, attempt, transport, remote>>

\* Control is back in the caller.
UReturn ==
    /\ pc = "u_return"
    /\ pc' = IF caller = "main" /\ upload # "raised" THEN "main_upload_done" ELSE "done"
    /\ UNCHANGED <<Frame, events, txt_buffer, UploadLocals>>

UploadStep ==
    \/ UEnter \/ UFor \/ USeek \/ UTransport \/ UConnect \/ USftp \/ UOpen
    \/ UWrite \/ UList \/ UClose \/ USuccess \/ UExcept \/ USleep \/ UFinally
    \/ UReturn

----------------------------------------------------------------------------
(* upload_to_sftp called on its own, with any retries and delay *)

Delays == {0, DefaultDelay}

Buffers == { Some(StringIO(<<HeaderLine, <<"2", "75">>>>, 2, FALSE)),
             Some(StringIO(<<HeaderLine>>, 1, FALSE)),
             Some(StringIO(<<HeaderLine, <<"2", "75">>>>, 2, TRUE)) }

InitUpload ==
    /\ pc = "u_enter"
    /\ caller = "direct"
    /\ events = <<>>
    /\ raw_data = None
    /\ txt_buffer \in Buffers
    /\ retries \in MinRetries..MaxRetries
    /\ delay \in Delays
    /\ attempt = 0
    /\ transport = 0
    /\ transports = <<>>
    /\ remote = None
    /\ upload = "unset"

NextUpload == UploadStep

SpecUpload == InitUpload /\ [][NextUpload]_vars

\* The program is one thread that runs on as long as it has a next step:
\* every network call and every sleep returns.
SpecUploadFair == SpecUpload /\ WF_vars(NextUpload)

----------------------------------------------------------------------------
(* fetch_data, main.py lines 35-58 *)

\* What the API does with the one GET of a run.
ApiAnswers ==
    {[kind |-> k, body |-> None] :
        k \in {"connection_error", "http_error", "request_exception", "unexpected", "bad_json"}}
    \cup {[kind |-> "ok", body |-> None]}      \* the JSON document null
    \cup {[kind |-> "ok", body |-> Some(l)] : l \in RecordLists(MaxRecords, ApiPriceValues)}

\* The log records and the returned value of fetch_data for one answer.  The
\* success line is logged before response.json() parses the body.
FetchLogs(ans) ==
    CASE ans.kind = "connection_error" -> <<Log("fetch", "connection_failed", 0)>>
      [] ans.kind = "http_error" -> <<Log("fetch", "http_error", 0)>>
      [] ans.kind = "request_exception" -> <<Log("fetch", "request_failed", 0)>>
      [] ans.kind = "unexpected" -> <<Log("fetch", "unexpected_error", 0)>>
      [] ans.kind = "bad_json" -> <<Log("fetch", "fetched_ok", 0), Log("fetch", "request_failed", 0)>>
      [] ans.kind = "ok" -> <<Log("fetch", "fetched_ok", 0)>>

FetchResult(ans) == IF ans.kind = "ok" THEN ans.body ELSE None

\* Python truth value of what fetch_data returned: None and [] are false.
Truthy(data) == data # None /\ Len(data[1]) > 0

----------------------------------------------------------------------------
(* process_data, main.py lines 64-99 *)

\* pd.DataFrame(data): the column price exists when some record has the key.
HasPriceColumn(list) == \E k \in 1..Len(list) : list[k].price.t # "absent"

\* dtype of the price column: a string makes it object, a missing value
\* (NaN) makes it float64, otherwise int64.
PriceDtype(list) ==
    IF \E k \in 1..Len(list) : list[k].price.t = "str" THEN "object"
    ELSE IF \E k \in 1..Len(list) : list[k].price.t = "absent" THEN "float64"
    ELSE "int64"

\* df['price'] > 50 for one cell; NaN compares false.
Above(p) == p.t = "int" /\ p.v > PriceThreshold

\* The comparison of an object column with 50 raises TypeError at a str cell.
CompareRaises(list) == PriceDtype(list) = "object"

Keep(r) == Above(r.price)

\* to_csv of one cell of the price column.
FormatPrice(p, dtype) ==
    IF p.t = "absent" THEN ""
    ELSE IF p.t = "str" THEN p.s
    ELSE IF dtype = "float64" THEN ToString(p.v) \o ".0"
    ELSE ToString(p.v)

\* One line of the file, as the sequence of its tab-separated fields.
FormatRow(r, dtype) == <<ToString(r.id), FormatPrice(r.price, dtype)>>

RECURSIVE FormatRows(_, _)
FormatRows(list, dtype) ==
    IF list = <<>> THEN <<>>
    ELSE <<FormatRow(Head(list), dtype)>> \o FormatRows(Tail(list), dtype)

\* df_filtered.to_csv(txt_buffer, sep="\t", index=False): header, then rows.
ToCsv(list, dtype) == <<HeaderLine>> \o FormatRows(list, dtype)

\* line 77: if not data
NoData_NoneOnly(data) == data = None
NoData(data) == ~Truthy(data)

\* The outcome of process_data(data): the value it returns and its log records.
ProcessData(data) ==
    IF NoData(data)
    THEN [result |-> None, logs |-> <<Log("process", "value_error", 0)>>]
    ELSE LET list == data[1]
             shown == <<Log("process", "original_heading", 0), Log("process", "original_rows", 0)>>
         IN IF ~HasPriceColumn(list) \/ CompareRaises(list)
            THEN [result |-> None,
                  logs |-> shown \o <<Log("process", "unexpected_error", 0)>>]
            ELSE LET filtered == SelectSeq(list, Keep)
                     lines == ToCsv(filtered, PriceDtype(list))
                 IN [result |-> Some(StringIO(lines, Len(lines), FALSE)),
                     logs |-> shown \o <<Log("process", "filtered_heading", 0),
                                         Log("process", "filtered_rows", 0),
                                         Log("process", "processed_ok", 0)>>]

----------------------------------------------------------------------------
(* The __main__ block, main.py lines 177-195 *)

PipelineLocals == <<retries, delay, attempt, transport, transports, remote, upload>>

\* line 179
MainStart ==
    /\ pc = "main_start"
    /\ events' = Append(events, Log("main", "starting", 0))
    /\ pc' = "fetch"
    /\ UNCHANGED <<caller, raw_data, txt_buffer, PipelineLocals>>

\* FetchData with a failed request sent a second time.
FetchData_RetryOnce ==
    /\ pc = "fetch"
    /\ \E ans \in ApiAnswers :
         /\ events' = IF ans.kind = "ok"
                      THEN events \o <<Call("fetch", "GET", 0)>> \o FetchLogs(ans)
                      ELSE events \o <<Call("fetch", "GET", 0)>> \o FetchLogs(ans)
                                  \o <<Call("fetch", "GET", 0)>> \o FetchLogs(ans)
         /\ raw_data' = FetchResult(ans)
    /\ pc' = "main_if_raw"
    /\ UNCHANGED <<caller, txt_buffer, PipelineLocals>>

\* line 182: raw_data = fetch_data(API_URL)
FetchData ==
    /\ pc = "fetch"
    /\ \E ans \in ApiAnswers :
         /\ events' = events \o <<Call("fetch", "GET", 0)>> \o FetchLogs(ans)
         /\ raw_data' = FetchResult(ans)
    /\ pc' = "main_if_raw"
    /\ UNCHANGED <<caller, txt_buffer, PipelineLocals>>

\* MainIfRaw without the test of line 183.
MainIfRaw_AlwaysProcess ==
    /\ pc = "main_if_raw"
    /\ pc' = "process"
    /\ UNCHANGED <<caller, events, raw_data, txt_buffer, PipelineLocals>>

\* lines 183, 194-195: if raw_data: ... else: the fetch stage failure line
MainIfRaw ==
    /\ pc = "main_if_raw"
    /\ IF Truthy(raw_data)
       THEN /\ pc' = "process"
            /\ UNCHANGED events
       ELSE /\ events' = Append(events, Log("main", "failed_at_fetch_stage", 0))
            /\ pc' = "done"
    /\ UNCHANGED <<caller, raw_data, txt_buffer, PipelineLocals>>

\* line 185: txt_buffer = process_data(raw_data)
CallProcessData ==
    /\ pc = "process"
    /\ LET out == ProcessData(raw_data)
       IN /\ events' = events \o <<Call("process", "process_data", 0)>> \o out.logs
          /\ txt_buffer' = out.result
    /\ pc' = IF caller = "main" THEN "main_if_buf" ELSE "done"
    /\ UNCHANGED <<caller, raw_data, PipelineLocals>>

\* MainIfBuf skipping the upload of a buffer without data rows.
MainIfBuf_SkipHeaderOnly ==
    /\ pc = "main_if_buf"
    /\ IF txt_buffer # None /\ Len(txt_buffer[1].content) > 1
       THEN /\ pc' = "u_enter"
            /\ events' = Append(events, Call("upload", "upload_to_sftp", 0))
       ELSE /\ pc' = "done"
            /\ UNCHANGED events
    /\ UNCHANGED <<caller, raw_data, txt_buffer, PipelineLocals>>

\* lines 186-188: if txt_buffer: upload = upload_to_sftp(txt_buffer, ...) with
\* the default retries and delay.  A StringIO is always true.
MainIfBuf ==
    /\ pc = "main_if_buf"
    /\ IF txt_buffer # None
       THEN /\ pc' = "u_enter"
            /\ events' = Append(events, Call("upload", "upload_to_sftp", 0))
       ELSE /\ pc' = "done"
            /\ UNCHANGED events
    /\ UNCHANGED <<caller, raw_data, txt_buffer, PipelineLocals>>

\* lines 190-193
MainUploadDone ==
    /\ pc = "main_upload_done"
    /\ events' = IF upload = "upload_successful"
                 THEN Append(events, Log("main", "completed_successfully", 0))
                 ELSE IF upload = "upload_failed"
                 THEN Append(events, Log("main", "completed_without_upload", 0))
                 ELSE events
    /\ pc' = "done"
    /\ UNCHANGED <<caller, raw_data, txt_buffer, PipelineLocals>>

Init ==
    /\ pc = "main_start"
    /\ caller = "main"
    /\ events = <<>>
    /\ raw_data = None
    /\ txt_buffer = None
    /\ retries = DefaultRetries
    /\ delay = DefaultDelay
    /\ attempt = 0
    /\ transport = 0
    /\ transports = <<>>
    /\ remote = None
    /\ upload = "unset"

Next ==
    \/ MainStart \/ FetchData \/ MainIfRaw \/ CallProcessData \/ MainIfBuf
    \/ UploadStep \/ MainUploadDone

Spec == Init /\ [][Next]_vars

----------------------------------------------------------------------------
(* process_data called on its own, with any list of records or None *)

InitProcess ==
    /\ pc = "process"
    /\ caller = "direct"
    /\ events = <<>>
    /\ raw_data \in {None} \cup {Some(l) : l \in RecordLists(MaxRecords, PriceValues)}
    /\ txt_buffer = None
    /\ retries = DefaultRetries
    /\ delay = DefaultDelay
    /\ attempt = 0
    /\ transport = 0
    /\ transports = <<>>
    /\ remote = None
    /\ upload = "unset"

NextProcess == CallProcessData

SpecProcess == InitProcess /\ [][NextProcess]_vars

----------------------------------------------------------------------------
(* Properties of upload_to_sftp, checked under SpecUpload *)

IsIO(e, names) == e.kind = "io" /\ e.name \in names

IsAttemptOrSleep(e) == IsIO(e, {"Transport", "sleep"})

\* The calls of paramiko.Transport(...) and time.sleep(...), in order.
AttemptsAndSleeps == SelectSeq(events, IsAttemptOrSleep)

Returned == pc = "done" /\ upload # "raised"

\* No transport could be created although the buffer was usable: the host
\* is unreachable.
HostUnreachable == ~txt_buffer[1].closed /\ transports = <<>>

\* C1: with retries >= 1 and every connection attempt failing, the call
\* makes exactly retries connection attempts, sleeps delay exactly once
\* between consecutive attempts and not after the last one, and returns
\* "upload_failed".
C1_ExhaustsRetries ==
    (Returned /\ retries >= 1 /\ HostUnreachable) =>
        /\ upload = "upload_failed"
        /\ CountEv(events, "io", "Transport") = retries
        /\ CountEv(events, "io", "sleep") = retries - 1
        /\ Len(AttemptsAndSleeps) = 2 * retries - 1
        /\ \A i \in 1..Len(AttemptsAndSleeps) :
             IF i % 2 = 1
             THEN AttemptsAndSleeps[i].name = "Transport" /\ AttemptsAndSleeps[i].n = (i + 1) \div 2
             ELSE AttemptsAndSleeps[i].name = "sleep" /\ AttemptsAndSleeps[i].n = delay

C1_Witness ==
    /\ Returned /\ retries = DefaultRetries /\ delay = DefaultDelay /\ HostUnreachable
    /\ upload = "upload_failed"
    /\ CountEv(events, "io", "Transport_raised") = DefaultRetries

\* The position in events at which an attempt completed line 145: the
\* sftp.close() call followed by a transport.close() that returned.
CompletedAt(i) ==
    /\ i >= 2
    /\ IsIO(events[i], {"close"})
    /\ IsIO(events[i - 1], {"sftp_close"})

\* C2: once an attempt has completed connect, write, list and close, no
\* connection attempt, write or sleep follows and the call returns
\* "upload_successful".
C2_StopsAfterSuccess ==
    \A i \in 1..Len(events) :
        CompletedAt(i) =>
            /\ \A j \in (i + 1)..Len(events) :
                 ~IsIO(events[j], {"Transport", "connect", "from_transport", "open", "write",
                                   "listdir", "sleep"})
            /\ upload \in {"unset", "upload_successful"}
            /\ pc = "done" => upload = "upload_successful"

C2_Witness ==
    /\ pc = "done" /\ upload = "upload_successful"
    /\ attempt = 2 /\ retries = DefaultRetries
    /\ \E i \in 1..Len(events) : CompletedAt(i)

\* C3: when the call returns, no transport it opened is open; an open
\* transport always belongs to the attempt in progress, so none of an
\* earlier attempt is open when a new one is created.
C3_NoTransportLeft ==
    /\ Returned => OpenTransports = {}
    /\ \A tid \in OpenTransports : transports[tid].by = attempt
    /\ pc \in {"u_for", "u_seek", "u_transport"} => OpenTransports = {}

C3_Witness ==
    /\ Returned /\ upload = "upload_failed"
    /\ Len(transports) = DefaultRetries
    /\ OpenTransports = {}

\* C4: the transport of a failed attempt is closed before the sleep begins:
\* no transport is open while the call is sleeping.
C4_ClosedBeforeSleep ==
    pc = "u_sleep" => OpenTransports = {}

\* C5: whatever retries is, the call returns "upload_successful" or
\* "upload_failed" and nothing else.
C5_TwoOutcomes ==
    Returned => upload \in {"upload_successful", "upload_failed"}

----------------------------------------------------------------------------
(* Properties of the pipeline run, checked under Spec *)

Called(name) == CountEv(events, "io", name)

\* The position of the first call of that name in events.
CallIndex(name) == CHOOSE i \in 1..Len(events) : IsIO(events[i], {name})

Fetched == Called("GET") = 1

\* C6: the stages run in the order fetch, transform, upload, each at most
\* once and only when the stage before returned a non-empty, non-failure
\* result; after a failed fetch neither process_data nor upload_to_sftp is
\* called and the log holds fetch stage lines only; after a failed
\* process_data, upload_to_sftp is not called.
C6_StagesInOrder ==
    LET gets == Called("GET")
        processes == Called("process_data")
        uploads == Called("upload_to_sftp")
    IN /\ gets <= 1 /\ processes <= 1 /\ uploads <= 1
       /\ processes = 1 =>
             /\ gets = 1 /\ CallIndex("GET") < CallIndex("process_data")
             /\ Truthy(raw_data)
       /\ uploads = 1 =>
             /\ processes = 1
             /\ CallIndex("process_data") < CallIndex("upload_to_sftp")
             /\ txt_buffer # None
       /\ uploads = 0 =>
             \A i \in 1..Len(events) : events[i].stage # "upload"
       /\ (gets = 1 /\ ~Truthy(raw_data)) =>
             /\ processes = 0 /\ uploads = 0
             /\ \A i \in 1..Len(events) :
                  IsLog(events[i]) =>
                      \/ events[i].stage = "fetch"
                      \/ events[i] \in {Log("main", "starting", 0),
                                        Log("main", "failed_at_fetch_stage", 0)}
       /\ (processes = 1 /\ txt_buffer = None) => uploads = 0

C6_Witness ==
    /\ pc = "done" /\ Fetched /\ raw_data = None
    /\ \E i \in 1..Len(LogLines) : LogLines[i] = Log("fetch", "http_error", 0)
    /\ Called("process_data") = 0

LastLogLine == LogLines[Len(LogLines)]

\* C7: every run ends with an outcome line of the orchestrator as the last
\* log line.
C7_FinalOutcomeLine ==
    Returned =>
        /\ LogLines # <<>>
        /\ LastLogLine.stage = "main"
        /\ LastLogLine.name # "starting"

----------------------------------------------------------------------------
(* Properties of process_data, checked under SpecProcess *)

\* The first field of every data row of a file, in order.
RowIds(content) == [k \in 1..(Len(content) - 1) |-> content[k + 1][1]]

NumericAbove50(r) == r.price.t = "int" /\ r.price.v > 50

\* The ids of the records whose numeric price is above 50, in order.
ExpectedIds(list) ==
    LET kept == SelectSeq(list, NumericAbove50)
    IN [k \in 1..Len(kept) |-> ToString(kept[k].id)]

\* C8: for a non-empty list process_data returns a buffer whose data rows
\* are exactly the records with a numeric price above 50, in their order;
\* a record whose price is missing or not a number is left out and does not
\* make process_data fail.
C8_FilterPriceAbove50 ==
    (pc = "done" /\ Truthy(raw_data)) =>
        /\ txt_buffer # None
        /\ txt_buffer[1].content[1] = HeaderLine
        /\ RowIds(txt_buffer[1].content) = ExpectedIds(raw_data[1])

\* C9: process_data of an empty list or of None reports a validation
\* failure and returns None, never a buffer.
C9_EmptyInputRejected ==
    (pc = "done" /\ raw_data \in {None, Some(<<>>)}) =>
        /\ txt_buffer = None
        /\ LogLines = <<Log("process", "value_error", 0)>>

C9_Witness ==
    /\ pc = "done" /\ raw_data = Some(<<>>)
    /\ Called("process_data") = 1
    /\ txt_buffer = None

----------------------------------------------------------------------------
(* The end-to-end scenario, checked under Spec *)

ApiExample == <<Rec(1, IntVal(30)), Rec(2, IntVal(75)), Rec(3, StrVal("N/A"))>>

RaisedNames ==
    {"seek_raised", "Transport_raised", "connect_raised", "from_transport_raised", "open_raised",
     "write_raised", "listdir_raised", "sftp_close_raised", "close_raised"}

\* The SFTP server refused nothing.
NoStepRaised == \A i \in 1..Len(events) : ~IsIO(events[i], RaisedNames)

\* C10: with the API answering the three records of the example and the
\* SFTP server accepting the first attempt, the run leaves the two lines
\* id<TAB>price and 2<TAB>75 at the remote path and ends with the success
\* line.
C10_EndToEnd ==
    (pc = "done" /\ raw_data = Some(ApiExample) /\ NoStepRaised) =>
        /\ remote = Some(<<HeaderLine, <<"2", "75">>>>)
        /\ LastLogLine = Log("main", "completed_successfully", 0)

----------------------------------------------------------------------------
(* Further properties of upload_to_sftp *)

\* C11: no exception leaves fetch_data, process_data or upload_to_sftp,
\* whichever step fails, the transport close of the cleanup included: with
\* retries >= 1 the call ends by returning "upload_successful" or
\* "upload_failed".
C11_NoExceptionEscapes ==
    (pc = "done" /\ retries >= 1) => upload \in {"upload_successful", "upload_failed"}

\* An attempt ended in the except clause.
IsAttemptFailed(e) == IsLog(e) /\ e.name = "attempt_failed"

FailedAttempts == Cardinality({ i \in 1..Len(events) : IsAttemptFailed(events[i]) })

SomeAttemptCompleted == \E i \in 1..Len(events) : CompletedAt(i)

C12_Outcome ==
    /\ Called("Transport") <= (IF retries >= 1 THEN retries ELSE 0)
    /\ attempt <= (IF retries >= 1 THEN retries ELSE 0)
    /\ (Returned /\ retries >= 1) =>
          /\ upload = "upload_successful" <=> SomeAttemptCompleted
          /\ upload = "upload_failed" <=> FailedAttempts = retries
          /\ upload \in {"upload_successful", "upload_failed"}

\* C12: with retries >= 1 and any pattern of failures of connect, write,
\* list and close, the call terminates after at most retries connection
\* attempts; it returns "upload_successful" exactly when some attempt
\* completed every step and "upload_failed" exactly when all retries
\* attempts failed.
C12_TerminatesWithOutcome == <>(pc = "done") /\ []C12_Outcome

C12_Witness ==
    /\ Returned /\ retries = DefaultRetries
    /\ upload = "upload_successful"
    /\ FailedAttempts = 2
    /\ Called("write_raised") = 1 /\ Called("listdir_raised") = 1

\* The listing of attempt k raised after its write had succeeded.
ListingRaisedAt(i) == IsIO(events[i], {"listdir_raised"})

\* C13: an attempt whose write succeeded and whose listing raised is a
\* failed attempt like any other: with attempts left the call goes on to
\* the next attempt, which connects and writes the whole file again; at the
\* last attempt the call returns "upload_failed" although the file is at
\* the remote path.
C13_ListingFailureFailsAttempt ==
    \A i \in 1..Len(events) :
        ListingRaisedAt(i) =>
            LET k == events[i].n
            IN /\ \E j \in 1..(i - 1) : events[j] = IO("write", k)
               /\ i < Len(events) => events[i + 1] = Log("upload", "attempt_failed", k)
               /\ \A j \in (i + 1)..Len(events) : events[j] # IO("sftp_close", k)
               /\ (k < retries /\ Returned) =>
                     \E j \in (i + 1)..Len(events) : events[j] = IO("Transport", k + 1)
               /\ \A j \in (i + 1)..Len(events) :
                     events[j] = IO("write", k + 1) =>
                        /\ \E c \in (i + 1)..(j - 1) : events[c] = IO("connect", k + 1)
                        /\ (j = Len(events) - 1 => remote = Some(txt_buffer[1].content))
               /\ (k = retries /\ Returned) =>
                     /\ upload = "upload_failed"
                     /\ remote = Some(txt_buffer[1].content)

C13_Witness ==
    /\ Returned /\ retries = DefaultRetries
    /\ upload = "upload_failed"
    /\ Called("listdir_raised") = DefaultRetries
    /\ Called("write") = DefaultRetries
    /\ remote = Some(txt_buffer[1].content)

\* One step of the call leaves the content of the buffer alone, and a step
\* that writes makes one write call, of the whole content.
C14_Step ==
    /\ txt_buffer'[1].content = txt_buffer[1].content
    /\ CountEv(events', "io", "write") - CountEv(events, "io", "write") \in {0, 1}
    /\ CountEv(events', "io", "write") # CountEv(events, "io", "write") =>
          remote' = Some(txt_buffer[1].content)

C14_OneWritePerAttempt ==
    \A k \in 1..attempt :
        Cardinality({ i \in 1..Len(events) : events[i] = IO("write", k) }) <= 1

\* C14: every attempt that reaches the write step writes the complete
\* content of the buffer in one write call, and upload_to_sftp never changes
\* that content, so all attempts write the same data.
C14_WritesWholeBuffer == [][C14_Step]_vars /\ []C14_OneWritePerAttempt

C14_Witness ==
    /\ pc = "u_list" /\ attempt = 2
    /\ Called("write") = 2
    /\ Len(txt_buffer[1].content) = 2
    /\ remote = Some(txt_buffer[1].content)

\* C16: close is invoked exactly once on every transport the call opened,
\* and never on a transport that is closed already.
C16_ClosedExactlyOnce ==
    \A tid \in 1..Len(transports) :
        /\ transports[tid].closeCalls <= 1
        /\ Returned => transports[tid].closeCalls = 1

----------------------------------------------------------------------------
(* Further properties of the pipeline run, checked under Spec *)

FetchErrorNames == {"connection_failed", "http_error", "request_failed", "unexpected_error"}

\* fetch_data logged one of its error lines.
FetchFailed ==
    \E i \in 1..Len(events) :
        IsLog(events[i]) /\ events[i].stage = "fetch" /\ events[i].name \in FetchErrorNames

\* fetch_data logged its success line and returned the parsed body.
FetchSucceeded == Fetched /\ ~FetchFailed

NetworkCalls == { i \in 1..Len(events) : events[i].kind = "io" /\ events[i].stage # "process" }

\* C15: a run issues exactly one HTTP GET; a fetch failure is not retried
\* and no network operation follows it.
C15_OneGetNoRetry ==
    /\ Called("GET") <= 1
    /\ pc = "done" => Called("GET") = 1
    /\ FetchFailed =>
          /\ raw_data = None
          /\ Cardinality(NetworkCalls) = 1
          /\ pc \in {"main_if_raw", "done"}

C15_Witness ==
    /\ pc = "done" /\ FetchFailed
    /\ \E i \in 1..Len(events) : events[i] = Log("fetch", "connection_failed", 0)
    /\ Called("GET") = 1

\* C17: the fetch stage failure line is logged only when fetch_data failed;
\* the result of a fetch that succeeded, an empty array included, is handed
\* to process_data.
C17_FailureLineOnlyOnFailure ==
    FetchSucceeded =>
        /\ \A i \in 1..Len(events) : events[i] # Log("main", "failed_at_fetch_stage", 0)
        /\ pc = "done" => Called("process_data") = 1

\* C18: whenever process_data returned a buffer, upload_to_sftp is called
\* with it, also when the buffer holds the header line only.
C18_BufferAlwaysUploaded ==
    (txt_buffer # None /\ pc # "main_if_buf") =>
        /\ Called("upload_to_sftp") = 1
        /\ remote \in {None, Some(<<>>), Some(txt_buffer[1].content)}

C18_Witness ==
    /\ pc = "done" /\ txt_buffer # None
    /\ txt_buffer[1].content = <<HeaderLine>>
    /\ Called("upload_to_sftp") = 1
    /\ upload = "upload_successful"
    /\ remote = Some(<<HeaderLine>>)

====
